---- MODULE Spec2Model ----
(***************************************************************************)
(* A state-machine model of github_keys_sync.py: the Lambda handler that   *)
(* fetches SSH public keys from a GitHub directory, renders a cloud-init   *)
(* file, imports the keys as EC2 key pairs, deletes the stale "-gh-key"    *)
(* key pairs and uploads the rendered file to S3.                          *)
(*                                                                         *)
(* Texts (key files, names, the rendered file) are sequences of tokens.    *)
(* "SP", "LF" and "CR" stand for the space, "\n" and "\r" characters; "."  *)
(* is the dot; "-gh-key" is the marker the code appends and searches for;  *)
(* every other token is a run of non-whitespace characters.                *)
(***************************************************************************)
EXTENDS Naturals, Sequences, FiniteSets, TLC

\* ------------------------------------------------------------------ bounds

\* The longest directory listing the model draws.
MaxFiles == 2
\* The longest raw key text the fetch specification draws.
MaxTextLen == 6

\* ------------------------------------------------------------------- texts

\* The characters str.strip() removes and the ones str.splitlines() breaks at.
IsSpace(c) == c \in {"SP", "LF", "CR"}
IsLineEnd(c) == c \in {"LF", "CR"}

RECURSIVE lstrip(_)
lstrip(s) ==
    IF s = <<>> THEN <<>>
    ELSE IF IsSpace(Head(s)) THEN lstrip(Tail(s)) ELSE s

RECURSIVE rstrip(_)
rstrip(s) ==
    IF s = <<>> THEN <<>>
    ELSE IF IsSpace(s[Len(s)]) THEN rstrip(SubSeq(s, 1, Len(s) - 1)) ELSE s

\* str.strip() with no argument: leading and trailing whitespace removed.
strip(s) == rstrip(lstrip(s))

\* str.splitlines(True): the lines of s, each with its terminator; "\r\n" is
\* one terminator; no empty last line.
RECURSIVE SplitFrom(_, _)
SplitFrom(s, cur) ==
    IF s = <<>> THEN (IF cur = <<>> THEN <<>> ELSE <<cur>>)
    ELSE IF Head(s) = "CR" /\ Len(s) >= 2 /\ s[2] = "LF"
         THEN <<cur \o <<"CR", "LF">>>> \o SplitFrom(Tail(Tail(s)), <<>>)
    ELSE IF IsLineEnd(Head(s))
         THEN <<cur \o <<Head(s)>>>> \o SplitFrom(Tail(s), <<>>)
    ELSE SplitFrom(Tail(s), cur \o <<Head(s)>>)

splitlines(s) == SplitFrom(s, <<>>)

\* "".join(lines)
RECURSIVE join(_)
join(lines) == IF lines = <<>> THEN <<>> ELSE Head(lines) \o join(Tail(lines))

\* str.strip(chars): leading and trailing characters of the set removed.
RECURSIVE lstripChars(_, _)
lstripChars(s, chars) ==
    IF s = <<>> THEN <<>>
    ELSE IF Head(s) \in chars THEN lstripChars(Tail(s), chars) ELSE s

RECURSIVE rstripChars(_, _)
rstripChars(s, chars) ==
    IF s = <<>> THEN <<>>
    ELSE IF s[Len(s)] \in chars
         THEN rstripChars(SubSeq(s, 1, Len(s) - 1), chars) ELSE s

stripChars(s, chars) == rstripChars(lstripChars(s, chars), chars)

\* A faulty filter: the second strip() is missing, and a line of spaces is
\* kept.
KeepLine_OnlyLineEnds(s) == stripChars(s, {"CR", "LF"}) # <<>>

\* The filter of the list comprehension: s.strip("\r\n").strip() is truthy.
KeepLine(s) == strip(stripChars(s, {"CR", "LF"})) # <<>>

\* "".join([s for s in text.strip().splitlines(True) if s.strip("\r\n").strip()])
RemoveBlankLines(text) == join(SelectSeq(splitlines(strip(text)), KeepLine))

\* ------------------------------------------------------------------- names

\* The marker upload_aws_key_pairs appends and clean_aws_key_pairs searches.
Marker == "-gh-key"

\* each['name'].split('.')[0]: the part of the name before its first dot.
RECURSIVE BeforeFirstDot(_)
BeforeFirstDot(name) ==
    IF name = <<>> \/ Head(name) = "." THEN <<>>
    ELSE <<Head(name)>> \o BeforeFirstDot(Tail(name))

\* A faulty key name: the marker is not appended.
KeyName_NoMarker(user) == user

\* user + '-gh-key'
KeyName(user) == user \o <<Marker>>

\* key_name.find('-gh-key') != -1
HasMarker(name) == \E i \in 1..Len(name) : name[i] = Marker

\* The order of Python's string comparison on the tokens of the model.
TokenOrder == <<Marker, "-old", ".", "alice", "bob", "dave", "manual", "old", "pub">>
Rank(t) == CHOOSE i \in 1..Len(TokenOrder) : TokenOrder[i] = t

RECURSIVE NameLess(_, _)
NameLess(a, b) ==
    IF b = <<>> THEN FALSE
    ELSE IF a = <<>> THEN TRUE
    ELSE IF Head(a) = Head(b) THEN NameLess(Tail(a), Tail(b))
    ELSE Rank(Head(a)) < Rank(Head(b))

\* A faulty list.sort(): the list is left in the order it has.
SortNames_Unsorted(names) == names

\* list.sort() on a list of names
SortNames(names) == SortSeq(names, NameLess)

Range(f) == {f[i] : i \in DOMAIN f}

\* ----------------------------------------------------------- Python values

\* None, a str and an int (held by its decimal digits) as tagged values.
PyNone == [t |-> "None", v |-> ""]
PyStr(x) == [t |-> "str", v |-> x]
PyInt(digits) == [t |-> "int", v |-> digits]

\* str(x): 'None' for None, the digits of an int, a str itself.
str(x) == IF x.t = "None" THEN "None" ELSE x.v

\* ------------------------------------------------------------------ inputs

\* The context argument: the object of the literal 'local' the handler's own
\* module passes (line 244), another str object equal to 'local', and the
\* context object the Lambda runtime passes.
LocalLiteral == "local_literal"
LocalEqual == "local_equal"
LambdaContext == "lambda_context"
Contexts == {LocalLiteral, LocalEqual, LambdaContext}

\* context is not 'local': an identity test, true of every object but the
\* literal's own.
IsNotLocal(ctx) == ctx # LocalLiteral

\* The event: one whose 'body' cannot be read or parsed (the string of
\* line 242, a missing key, bad JSON), or a body with a repository id.
RequestIds == {PyInt("42"), PyInt("43"), PyNone, PyStr("None")}
Events == {[body |-> FALSE, id |-> PyNone]}
              \cup {[body |-> TRUE, id |-> i] : i \in RequestIds}

\* os.environ.get('repo_id'): None when the variable is not set.
EnvRepoIds == {PyNone, PyStr("42")}

\* The names a directory listing may hold.
FileNames == {<<"alice", ".", "pub">>, <<"bob", ".", "pub">>,
              <<"alice", ".", "old", ".", "pub">>}
Listings == UNION {[1..n -> FileNames] : n \in 0..MaxFiles}

\* The raw contents of a key file, and the body of a failed file response.
RawKeys == {<<"k1", "LF", "LF">>, <<"k2">>}
ErrorBody == <<"404:", "SP", "Not", "SP", "Found">>

\* Every text of at most MaxTextLen characters over a four-letter alphabet.
Alphabet == {"k", "SP", "LF", "CR"}
AllTexts == UNION {[1..n -> Alphabet] : n \in 0..MaxTextLen}

\* The key pairs the registry may hold before a run: one that a source user
\* maps to, two stale ones carrying the marker, one without the marker.
OldKey == <<"k0">>
InitNames == {<<"alice", Marker>>, <<"dave", Marker>>,
              <<"dave", Marker, "-old">>, <<"manual">>}
InitRegistries == UNION {[S -> {OldKey}] : S \in SUBSET InitNames}

\* A file (the one at /tmp/init.conf, the object in the bucket): absent, or
\* present with its content.
NoFile == [exists |-> FALSE, content |-> <<>>]
File(text) == [exists |-> TRUE, content |-> text]
StaleFile == File(<<"stale">>)

\* --------------------------------------------------------------- functions

\* user_keys[username] = ssh_key on an insertion-ordered dict: a new key is
\* appended, an existing key keeps its place and takes the new value.
DictSet(d, u, k) ==
    IF \E i \in 1..Len(d) : d[i].user = u
    THEN [i \in 1..Len(d) |-> IF d[i].user = u THEN [user |-> u, key |-> k] ELSE d[i]]
    ELSE Append(d, [user |-> u, key |-> k])

\* The outcome of requests.get on one file: a response with the file, a
\* response with another status (its body is the error text; the code reads
\* .content without looking at the status), or an exception.
FetchOutcomes(Contents) ==
    {[kind |-> "ok", content |-> c] : c \in Contents}
        \cup {[kind |-> "http_error", content |-> ErrorBody],
              [kind |-> "raise", content |-> <<>>]}

\* The loop of fetch_users over the listing, with the outcome of each GET.
\* raised: a GET raised and the function did not return.
RECURSIVE FetchLoop(_, _, _)
FetchLoop(contents, outcomes, user_keys) ==
    IF contents = <<>> THEN [raised |-> FALSE, user_keys |-> user_keys]
    ELSE IF Head(outcomes).kind = "raise"
         THEN [raised |-> TRUE, user_keys |-> user_keys]
    ELSE FetchLoop(Tail(contents), Tail(outcomes),
                   DictSet(user_keys, BeforeFirstDot(Head(contents)),
                           RemoveBlankLines(Head(outcomes).content)))

\* The GETs fetch_users issued: all up to and including the first that raised.
RECURSIVE FetchCalls(_, _)
FetchCalls(contents, outcomes) ==
    IF contents = <<>> THEN <<>>
    ELSE <<[api |-> "GET file", arg |-> Head(contents),
             result |-> Head(outcomes).kind]>> \o
         (IF Head(outcomes).kind = "raise" THEN <<>>
          ELSE FetchCalls(Tail(contents), Tail(outcomes)))

\* template.render(users=user_keys.items()) with init.j2: a header line, a
\* blank line, then one line per user with the user's name and key.
RECURSIVE TemplateRender(_)
TemplateRender(user_keys) ==
    IF user_keys = <<>> THEN <<"#cloud-config", "LF", "LF">>
    ELSE TemplateRender(SubSeq(user_keys, 1, Len(user_keys) - 1)) \o
         user_keys[Len(user_keys)].user \o <<"SP">> \o
         user_keys[Len(user_keys)].key \o <<"LF">>

\* A faulty render: the users are left out of the file.
CleanConfig_NoUsers(user_keys) == <<"#cloud-config">>

\* The text render_template writes to /tmp/init.conf.
CleanConfig(user_keys) == RemoveBlankLines(TemplateRender(user_keys))

\* What upload_aws_key_pairs returns: False, or the list of names.
PyFalse == [ok |-> FALSE, names |-> <<>>]
PyList(names) == [ok |-> TRUE, names |-> names]
\* A faulty test of the returned value: only False counts, not [].
IsFalsy_OnlyFalse(x) == ~x.ok

\* not x, for x the value upload_aws_key_pairs returned
IsFalsy(x) == ~x.ok \/ x.names = <<>>

\* What ec2.import_key_pair does on one call: "none" lets the provider
\* answer by the registry (InvalidKeyPair.Duplicate when the name is
\* registered, success otherwise), "client_error" is a ClientError with
\* another code, "exception" any other exception.
ProviderFaults == {"none", "client_error", "exception"}

\* ec2.import_key_pair(KeyName=name, PublicKeyMaterial=key) on a free name
RegistryPut(reg, name, key) ==
    [n \in DOMAIN reg \cup {name} |-> IF n = name THEN key ELSE reg[n]]

\* A faulty provider: no name is ever reported as registered.
IsDuplicate_Never(reg, name) == FALSE

\* The provider answers import_key_pair with InvalidKeyPair.Duplicate: the
\* name is registered already (whatever key it holds).
IsDuplicate(reg, name) == name \in DOMAIN reg

\* One call of the EC2 API, with how it ended.
Ec2Call(api, name, result) == [api |-> api, arg |-> name, result |-> result]

\* The loop of upload_aws_key_pairs over users.items() and its return
\* value; tried lists the import_key_pair calls made.
RECURSIVE ImportLoop(_, _, _, _, _, _)
ImportLoop(us, faults, reg, imported_keys, existing_keys, tried) ==
    IF us = <<>>
    THEN [registry |-> reg, imported_keys |-> imported_keys,
          existing_keys |-> existing_keys, tried |-> tried,
          returned |-> PyList(SortNames(existing_keys \o imported_keys))]
    ELSE LET key_name == KeyName(Head(us).user)
             did(result) == Append(tried, Ec2Call("import_key_pair", key_name, result))
         IN IF Head(faults) = "exception"
            THEN [registry |-> reg, imported_keys |-> imported_keys,
                  existing_keys |-> existing_keys, tried |-> did("Exception"),
                  returned |-> PyFalse]
            ELSE IF Head(faults) = "client_error"
            THEN ImportLoop(Tail(us), Tail(faults), reg, imported_keys,
                            existing_keys, did("ClientError"))
            ELSE IF IsDuplicate(reg, key_name)
            THEN ImportLoop(Tail(us), Tail(faults), reg, imported_keys,
                            Append(existing_keys, key_name), did("Duplicate"))
            ELSE ImportLoop(Tail(us), Tail(faults),
                            RegistryPut(reg, key_name, Head(us).key),
                            Append(imported_keys, key_name), existing_keys,
                            did("ok"))

\* The names of a set as a sorted list.
RECURSIVE SortedSeqOf(_)
SortedSeqOf(S) ==
    IF S = {} THEN <<>>
    ELSE LET m == CHOOSE x \in S : \A y \in S \ {x} : NameLess(x, y)
         IN <<m>> \o SortedSeqOf(S \ {m})

\* A faulty filter: every name of the registry, marked or not.
MarkedNames_NoFilter(reg) == SortedSeqOf(DOMAIN reg)

\* aws_key_pairs of clean_aws_key_pairs: the registry's names with the
\* marker, sorted.
MarkedNames(reg) == SortedSeqOf({n \in DOMAIN reg : HasMarker(n)})

\* A faulty delete_key_pair: the key pair stays.
RegistryRemove_Keeps(reg, name) == reg

\* ec2.delete_key_pair(KeyName=name)
RegistryRemove(reg, name) == [n \in DOMAIN reg \ {name} |-> reg[n]]

\* A faulty loop: it stops after the first name it deletes.
CleanLoop_StopsAfterFirst(aws_key_pairs, github_keys, reg, aws_deleted_keys, failAt, tried) ==
    LET NotInGithub(k) == k \notin Range(github_keys)
        stale == SelectSeq(aws_key_pairs, NotInGithub)
    IN IF stale = <<>>
       THEN [raised |-> FALSE, registry |-> reg,
             aws_deleted_keys |-> aws_deleted_keys, tried |-> tried]
       ELSE [raised |-> FALSE, registry |-> RegistryRemove(reg, Head(stale)),
             aws_deleted_keys |-> Append(aws_deleted_keys, Head(stale)),
             tried |-> Append(tried, Ec2Call("delete_key_pair", Head(stale), "ok"))]

\* The deleting loop of clean_aws_key_pairs. failAt counts the
\* delete_key_pair calls down to the one that raises (0: none raises);
\* tried lists the delete_key_pair calls made.
RECURSIVE CleanLoop(_, _, _, _, _, _)
CleanLoop(aws_key_pairs, github_keys, reg, aws_deleted_keys, failAt, tried) ==
    IF aws_key_pairs = <<>>
    THEN [raised |-> FALSE, registry |-> reg,
          aws_deleted_keys |-> aws_deleted_keys, tried |-> tried]
    ELSE LET key == Head(aws_key_pairs) IN
         IF key \in Range(github_keys)
         THEN CleanLoop(Tail(aws_key_pairs), github_keys, reg,
                        aws_deleted_keys, failAt, tried)
         ELSE IF failAt = 1
         THEN [raised |-> TRUE, registry |-> reg,
               aws_deleted_keys |-> aws_deleted_keys,
               tried |-> Append(tried, Ec2Call("delete_key_pair", key, "raise"))]
         ELSE CleanLoop(Tail(aws_key_pairs), github_keys,
                        RegistryRemove(reg, key),
                        Append(aws_deleted_keys, key),
                        IF failAt = 0 THEN 0 ELSE failAt - 1,
                        Append(tried, Ec2Call("delete_key_pair", key, "ok")))

\* github_auth_handler(req_id), with the value of os.environ.get('repo_id')
github_auth_handler(req_id, env_repo_id) == str(env_repo_id) = req_id

\* A faulty http_response: the 500 branch is missing and every status but
\* 200 answers as 403 does.
http_response_No500(status) ==
    IF status = 200 THEN [statusCode |-> 200, body |-> <<"Status", "SUCCESS">>]
    ELSE [statusCode |-> 403, body |-> <<"Access", "DENIED">>]

\* http_response(status)
http_response(status) ==
    IF status = 200 THEN [statusCode |-> 200, body |-> <<"Status", "SUCCESS">>]
    ELSE IF status = 403 THEN [statusCode |-> 403, body |-> <<"Access", "DENIED">>]
    ELSE [statusCode |-> 500, body |-> <<"Status", "FAILED">>]

\* No response: the invocation has not returned.
NoResponse == [statusCode |-> 0, body |-> <<>>]

\* ------------------------------------------------------------------- state

\* The invocations of lambda_handler the model runs.
Procs == {1, 2}

VARIABLES
    registry,            \* EC2 key pairs: name -> public key material
    registry0,           \* the registry before any invocation (history)
    tmp_file,            \* the file /tmp/init.conf
    tmp_file0,           \* that file before any invocation (history)
    s3_object,           \* the object init.conf of the bucket
    aws_config_ok,       \* the AWS configuration lets boto3.client(...) return
    pc,                  \* per invocation: the step of lambda_handler it is at
    context,             \* per invocation: the context argument
    req_repo_id,         \* per invocation: req_repo_id ("" before line 196)
    expected_id,         \* per invocation: expected_id ("" before line 162)
    authorized,          \* per invocation: authorized ("unset" before line 199)
    status_code,         \* per invocation: resp.status_code of the listing
    data,                \* per invocation: the decoded listing
    fetched,             \* per invocation: the outcome of each file GET (history)
    users,               \* per invocation: the UserKeyMap
    aws_key_pairs,       \* per invocation: what upload_aws_key_pairs returned
    imported_keys,       \* per invocation: imported_keys of upload_aws_key_pairs
    existing_keys,       \* per invocation: existing_keys of upload_aws_key_pairs
    registry_at_import,  \* per invocation: the registry when the import began
    registry_at_return,  \* per invocation: the registry when the import ended
    aws_deleted_keys,    \* per invocation: aws_deleted_keys of clean_aws_key_pairs
    uploaded,            \* per invocation: uploaded ("unset" before line 228)
    response,            \* per invocation: what lambda_handler returned
    calls,               \* per invocation: the outside calls made, in order (history)
    completed            \* per invocation: the functions that returned, in order (history)

shared == <<registry, registry0, tmp_file, tmp_file0, s3_object, aws_config_ok>>
auth_vars == <<context, req_repo_id, expected_id, authorized>>
fetch_vars == <<status_code, data, fetched, users>>
import_vars == <<aws_key_pairs, imported_keys, existing_keys,
                 registry_at_import, registry_at_return>>
vars == <<registry, registry0, tmp_file, tmp_file0, s3_object, aws_config_ok, pc, context, req_repo_id,
          expected_id, authorized, status_code, data, fetched, users,
          aws_key_pairs, imported_keys, existing_keys, registry_at_import,
          registry_at_return, aws_deleted_keys, uploaded, response, calls,
          completed>>

Terminal == {"DONE", "DENIED", "FAILED", "ABORTED"}

\* One outside call, with how it ended.
Call(api, arg, result) == [api |-> api, arg |-> arg, result |-> result]
Did(p, f) == completed' = [completed EXCEPT ![p] = Append(@, f)]

\* The state of the invocations at step `at` of lambda_handler, with the
\* listing, the UserKeyMap user_keys and the functions of `done` returned.
LocalsAt(at, listing, user_keys, done) ==
    /\ pc = [p \in Procs |-> at]
    /\ context = [p \in Procs |-> LambdaContext]
    /\ req_repo_id = [p \in Procs |-> ""]
    /\ expected_id = [p \in Procs |-> ""]
    /\ authorized = [p \in Procs |-> "unset"]
    /\ status_code = [p \in Procs |-> 0]
    /\ data = [p \in Procs |-> listing]
    /\ fetched = [p \in Procs |-> <<>>]
    /\ users = [p \in Procs |-> user_keys]
    /\ aws_key_pairs = [p \in Procs |-> PyFalse]
    /\ imported_keys = [p \in Procs |-> <<>>]
    /\ existing_keys = [p \in Procs |-> <<>>]
    /\ registry_at_import = [p \in Procs |-> <<>>]
    /\ registry_at_return = [p \in Procs |-> <<>>]
    /\ aws_deleted_keys = [p \in Procs |-> <<>>]
    /\ uploaded = [p \in Procs |-> "unset"]
    /\ response = [p \in Procs |-> NoResponse]
    /\ calls = [p \in Procs |-> <<>>]
    /\ completed = [p \in Procs |-> done]

\* A faulty entry: lambda_handler begins at the import, with a UserKeyMap
\* nothing fetched or rendered.
InitLocals_AtImport ==
    LocalsAt("upload_aws_key_pairs", <<>>,
             <<[user |-> <<"alice">>, key |-> <<"k1">>]>>, <<>>)

\* The state of the invocations before lambda_handler is entered.
InitLocals == LocalsAt("auth_check", <<>>, <<>>, <<>>)

Init ==
    /\ registry \in InitRegistries
    /\ registry0 = registry
    /\ tmp_file \in {NoFile, StaleFile}
    /\ tmp_file0 = tmp_file
    /\ s3_object = NoFile
    /\ aws_config_ok \in BOOLEAN
    /\ InitLocals

\* ----------------------------------------------------------------- actions

\* An unhandled exception ends the invocation with no response.
Abort(p) == pc' = [pc EXCEPT ![p] = "ABORTED"] /\ UNCHANGED completed

\* return http_response(status)
Return(p, status, at) ==
    /\ response' = [response EXCEPT ![p] = http_response(status)]
    /\ pc' = [pc EXCEPT ![p] = at]

\* Lines 194-213: the authorization of a remote invocation and the reading
\* of the configuration. config_ok: contents_url and github_token are set.
AuthCheck(p) ==
    /\ pc[p] = "auth_check"
    /\ \E ctx \in Contexts, event \in Events, env_repo_id \in EnvRepoIds,
          config_ok \in BOOLEAN :
        /\ context' = [context EXCEPT ![p] = ctx]
        /\ IF IsNotLocal(ctx) /\ ~event.body
           THEN /\ Abort(p)
                /\ UNCHANGED <<req_repo_id, expected_id, authorized, response>>
           ELSE IF IsNotLocal(ctx)
           THEN /\ req_repo_id' = [req_repo_id EXCEPT ![p] = str(event.id)]
                /\ expected_id' = [expected_id EXCEPT ![p] = str(env_repo_id)]
                /\ IF ~github_auth_handler(str(event.id), env_repo_id)
                   THEN /\ authorized' = [authorized EXCEPT ![p] = "False"]
                        /\ Did(p, "github_auth_handler")
                        /\ Return(p, 403, "DENIED")
                   ELSE /\ authorized' = [authorized EXCEPT ![p] = "True"]
                        /\ UNCHANGED response
                        /\ IF config_ok
                           THEN /\ pc' = [pc EXCEPT ![p] = "get_repo_contents"]
                                /\ Did(p, "github_auth_handler")
                           ELSE Abort(p)
           ELSE /\ UNCHANGED <<req_repo_id, expected_id, authorized, response>>
                /\ IF config_ok
                   THEN /\ pc' = [pc EXCEPT ![p] = "get_repo_contents"]
                        /\ UNCHANGED completed
                   ELSE Abort(p)
    /\ UNCHANGED <<shared, fetch_vars, import_vars, aws_deleted_keys,
                   uploaded, calls>>

\* The statuses the listing response may carry.
ListingStatuses == {200, 404, 999}

\* A faulty test of the status: only the server errors count.
BadStatus_ServerErrors(status) == 500 <= status /\ status < 600

\* The test of line 12: the status makes get_repo_contents raise.
BadStatus(status) == (100 <= status /\ status < 600) /\ status # 200

\* Line 215 and get_repo_contents: the GET of the listing (which may raise),
\* the check of its status, the decoding of its body (which may raise).
get_repo_contents(p) ==
    /\ pc[p] = "get_repo_contents"
    /\ \E sent \in BOOLEAN, status \in ListingStatuses, json \in BOOLEAN,
          contents \in Listings :
        IF ~sent
        THEN /\ Abort(p)
             /\ calls' = [calls EXCEPT ![p] = Append(@, Call("GET listing", <<>>, "raise"))]
             /\ UNCHANGED <<status_code, data>>
        ELSE /\ status_code' = [status_code EXCEPT ![p] = status]
             /\ calls' = [calls EXCEPT ![p] = Append(@, Call("GET listing", <<>>, "ok"))]
             /\ IF BadStatus(status) \/ ~json
                THEN Abort(p) /\ UNCHANGED data
                ELSE /\ data' = [data EXCEPT ![p] = contents]
                     /\ Did(p, "get_repo_contents")
                     /\ pc' = [pc EXCEPT ![p] = "fetch_users"]
    /\ UNCHANGED <<shared, auth_vars, fetched, users, import_vars,
                   aws_deleted_keys, uploaded, response>>

\* Line 217 and fetch_users, the file contents drawn from Contents.
fetch_users_from(p, Contents) ==
    /\ pc[p] = "fetch_users"
    /\ \E outcomes \in [1..Len(data[p]) -> FetchOutcomes(Contents)] :
        LET r == FetchLoop(data[p], outcomes, <<>>) IN
        /\ fetched' = [fetched EXCEPT ![p] = outcomes]
        /\ calls' = [calls EXCEPT ![p] = @ \o FetchCalls(data[p], outcomes)]
        /\ IF r.raised
           THEN Abort(p) /\ UNCHANGED users
           ELSE /\ users' = [users EXCEPT ![p] = r.user_keys]
                /\ Did(p, "fetch_users")
                /\ pc' = [pc EXCEPT ![p] = "render_template"]
    /\ UNCHANGED <<shared, auth_vars, status_code, data, import_vars,
                   aws_deleted_keys, uploaded, response>>

fetch_users(p) == fetch_users_from(p, RawKeys)

\* A faulty test: render_template never finds the map empty.
NoUsers_Never(user_keys) == FALSE

\* The test of line 45: not user_keys.
NoUsers(user_keys) == user_keys = <<>>

\* Line 219 and render_template. template_ok: init.j2 opens and renders.
render_template(p) ==
    /\ pc[p] = "render_template"
    /\ \E template_ok \in BOOLEAN :
        IF NoUsers(users[p]) \/ ~template_ok
        THEN Abort(p) /\ UNCHANGED <<tmp_file, calls>>
        ELSE /\ tmp_file' = File(CleanConfig(users[p]))
             /\ calls' = [calls EXCEPT ![p] =
                             Append(@, Call("write /tmp/init.conf",
                                            CleanConfig(users[p]), "ok"))]
             /\ Did(p, "render_template")
             /\ pc' = [pc EXCEPT ![p] = "upload_aws_key_pairs"]
    /\ UNCHANGED <<registry, registry0, tmp_file0, s3_object, aws_config_ok,
                   auth_vars, fetch_vars, import_vars, aws_deleted_keys,
                   uploaded, response>>

\* Lines 221-224 and upload_aws_key_pairs. boto3.client('ec2') raises when
\* the AWS configuration is bad; faults: what the provider does on each
\* registration.
upload_aws_key_pairs(p) ==
    /\ pc[p] = "upload_aws_key_pairs"
    /\ \E faults \in [1..Len(users[p]) -> ProviderFaults] :
        IF ~aws_config_ok
        THEN /\ Abort(p)
             /\ UNCHANGED <<registry, import_vars, response, calls>>
        ELSE LET r == ImportLoop(users[p], faults, registry, <<>>, <<>>, <<>>) IN
             /\ registry_at_import' = [registry_at_import EXCEPT ![p] = registry]
             /\ registry' = r.registry
             /\ registry_at_return' = [registry_at_return EXCEPT ![p] = r.registry]
             /\ imported_keys' = [imported_keys EXCEPT ![p] = r.imported_keys]
             /\ existing_keys' = [existing_keys EXCEPT ![p] = r.existing_keys]
             /\ aws_key_pairs' = [aws_key_pairs EXCEPT ![p] = r.returned]
             /\ calls' = [calls EXCEPT ![p] = @ \o r.tried]
             /\ Did(p, "upload_aws_key_pairs")
             /\ IF IsFalsy(r.returned)
                THEN Return(p, 500, "FAILED")
                ELSE /\ pc' = [pc EXCEPT ![p] = "clean_aws_key_pairs"]
                     /\ UNCHANGED response
    /\ UNCHANGED <<registry0, tmp_file, tmp_file0, s3_object, aws_config_ok,
                   auth_vars, fetch_vars, aws_deleted_keys, uploaded>>

\* The registry names clean_aws_key_pairs finds to delete.
Stale(reg, github_keys) ==
    {n \in Range(MarkedNames(reg)) : n \notin Range(github_keys)}

\* Line 226 and clean_aws_key_pairs. describe_ok: describe_key_pairs
\* returned; failAt: which delete_key_pair call raises (0: none).
clean_aws_key_pairs(p) ==
    /\ pc[p] = "clean_aws_key_pairs"
    /\ LET github_keys == aws_key_pairs[p].names IN
       IF github_keys = <<>> \/ ~aws_config_ok
       THEN Abort(p) /\ UNCHANGED <<registry, aws_deleted_keys, calls>>
       ELSE \E describe_ok \in BOOLEAN,
               failAt \in 0..Cardinality(Stale(registry, github_keys)) :
            IF ~describe_ok
            THEN /\ Abort(p)
                 /\ calls' = [calls EXCEPT ![p] =
                                 Append(@, Call("describe_key_pairs", <<>>, "raise"))]
                 /\ UNCHANGED <<registry, aws_deleted_keys>>
            ELSE LET r == CleanLoop(MarkedNames(registry), github_keys,
                                    registry, <<>>, failAt, <<>>) IN
                 /\ registry' = r.registry
                 /\ aws_deleted_keys' = [aws_deleted_keys EXCEPT ![p] =
                                            r.aws_deleted_keys]
                 /\ calls' = [calls EXCEPT ![p] =
                                 Append(@, Call("describe_key_pairs", <<>>, "ok"))
                                     \o r.tried]
                 /\ IF r.raised THEN Abort(p)
                    ELSE /\ pc' = [pc EXCEPT ![p] = "upload_to_s3"]
                         /\ Did(p, "clean_aws_key_pairs")
    /\ UNCHANGED <<registry0, tmp_file, tmp_file0, s3_object, aws_config_ok,
                   auth_vars, fetch_vars, import_vars, uploaded, response>>

\* A faulty upload_to_s3: no try around upload_file, whose exception
\* leaves the function.
upload_to_s3_outcome_NoTry(file, client_ok, upload_ok) ==
    IF ~file.exists THEN [called |-> FALSE, returned |-> "False"]
    ELSE IF ~client_ok THEN [called |-> FALSE, returned |-> "raise"]
    ELSE IF upload_ok THEN [called |-> TRUE, returned |-> "True"]
    ELSE [called |-> TRUE, returned |-> "raise"]

\* upload_to_s3 on a file, with whether boto3.client('s3') returns a client
\* and whether s3.upload_file returns: whether upload_file was called, and
\* what upload_to_s3 did ("True" and "False": the value returned; "raise":
\* an exception left the function).
upload_to_s3_outcome(file, client_ok, upload_ok) ==
    IF ~file.exists THEN [called |-> FALSE, returned |-> "False"]
    ELSE IF ~client_ok THEN [called |-> FALSE, returned |-> "raise"]
    ELSE IF upload_ok THEN [called |-> TRUE, returned |-> "True"]
    ELSE [called |-> TRUE, returned |-> "False"]

\* Lines 228-233 and upload_to_s3. upload_ok: s3.upload_file returned
\* without an exception.
upload_to_s3(p) ==
    /\ pc[p] = "upload_to_s3"
    /\ \E upload_ok \in BOOLEAN :
        LET r == upload_to_s3_outcome(tmp_file, aws_config_ok, upload_ok) IN
        /\ calls' = [calls EXCEPT ![p] =
                        IF r.called
                        THEN Append(@, Call("upload_file", tmp_file.content,
                                            IF upload_ok THEN "ok" ELSE "raise"))
                        ELSE @]
        /\ s3_object' = IF r.called /\ upload_ok THEN tmp_file ELSE s3_object
        /\ IF r.returned = "raise"
           THEN Abort(p) /\ UNCHANGED <<uploaded, response>>
           ELSE /\ uploaded' = [uploaded EXCEPT ![p] = r.returned]
                /\ Did(p, "upload_to_s3")
                /\ IF r.returned = "True"
                   THEN Return(p, 200, "DONE")
                   ELSE Return(p, 500, "FAILED")
    /\ UNCHANGED <<registry, registry0, tmp_file, tmp_file0, aws_config_ok,
                   auth_vars, fetch_vars, import_vars, aws_deleted_keys>>

\* One step of lambda_handler in invocation p.
Step(p) ==
    \/ AuthCheck(p)
    \/ get_repo_contents(p)
    \/ fetch_users(p)
    \/ render_template(p)
    \/ upload_aws_key_pairs(p)
    \/ clean_aws_key_pairs(p)
    \/ upload_to_s3(p)

\* One invocation of lambda_handler, from a registry and a /tmp the
\* earlier invocations left.
Next == Step(1)

Spec == Init /\ [][Next]_vars

\* ------------------------------------------------- the functions on their own

\* The outcomes of a file GET in which fetch_users returns.
Responses == {o \in FetchOutcomes(RawKeys) : o.kind # "raise"}

\* The UserKeyMaps fetch_users returns on the listings of the model.
UserKeyMaps ==
    UNION {{FetchLoop(l, o, <<>>).user_keys : o \in [1..Len(l) -> Responses]}
           : l \in Listings}

\* upload_aws_key_pairs called twice in sequence with one UserKeyMap: by
\* invocation 1 and, when that call has ended, by invocation 2.
InitImport ==
    /\ registry \in InitRegistries
    /\ registry0 = registry
    /\ tmp_file = NoFile
    /\ tmp_file0 = tmp_file
    /\ s3_object = NoFile
    /\ aws_config_ok \in BOOLEAN
    /\ \E m \in UserKeyMaps :
          LocalsAt("upload_aws_key_pairs", <<>>, m,
                   <<"get_repo_contents", "fetch_users", "render_template">>)

NextImport ==
    \/ upload_aws_key_pairs(1)
    \/ pc[1] # "upload_aws_key_pairs" /\ upload_aws_key_pairs(2)

SpecImport == InitImport /\ [][NextImport]_vars

\* fetch_users on a listing of one file whose content is any text of at
\* most MaxTextLen characters.
InitFetch ==
    /\ registry \in {<<>>}
    /\ registry0 = registry
    /\ tmp_file = NoFile
    /\ tmp_file0 = tmp_file
    /\ s3_object = NoFile
    /\ aws_config_ok \in BOOLEAN
    /\ \E name \in FileNames :
          LocalsAt("fetch_users", <<name>>, <<>>, <<"get_repo_contents">>)

NextFetch == fetch_users_from(1, AllTexts)

SpecFetch == InitFetch /\ [][NextFetch]_vars

\* upload_to_s3 on any state of /tmp/init.conf and of the bucket.
Artifacts == {NoFile} \cup {File(CleanConfig(m)) : m \in UserKeyMaps \ {<<>>}}

InitPublish ==
    /\ registry \in {<<>>}
    /\ registry0 = registry
    /\ tmp_file \in Artifacts
    /\ tmp_file0 = tmp_file
    /\ s3_object \in {NoFile, StaleFile}
    /\ aws_config_ok \in BOOLEAN
    /\ LocalsAt("upload_to_s3", <<>>, <<>>,
                <<"get_repo_contents", "fetch_users", "render_template",
                  "upload_aws_key_pairs", "clean_aws_key_pairs">>)

NextPublish == upload_to_s3(1)

SpecPublish == InitPublish /\ [][NextPublish]_vars

\* Two invocations of lambda_handler on one host, interleaved step by
\* step, from the point where each has the listing (of one file) and
\* fetches the file: the file may have changed between the two fetches.
RaceRegistries == {r \in InitRegistries : DOMAIN r \subseteq {<<"alice", Marker>>}}

InitRace ==
    /\ registry \in RaceRegistries
    /\ registry0 = registry
    /\ tmp_file \in {NoFile, StaleFile}
    /\ tmp_file0 = tmp_file
    /\ s3_object = NoFile
    /\ aws_config_ok \in BOOLEAN
    /\ \E name \in FileNames :
          LocalsAt("fetch_users", <<name>>, <<>>, <<"get_repo_contents">>)

NextRace ==
    \E p \in Procs :
        \/ fetch_users(p)
        \/ render_template(p)
        \/ upload_aws_key_pairs(p)
        \/ clean_aws_key_pairs(p)
        \/ upload_to_s3(p)

SpecRace == InitRace /\ [][NextRace]_vars

\* ------------------------------------------------------------ claim helpers

Success200 == [statusCode |-> 200, body |-> <<"Status", "SUCCESS">>]
Denied403 == [statusCode |-> 403, body |-> <<"Access", "DENIED">>]
Failed500 == [statusCode |-> 500, body |-> <<"Status", "FAILED">>]

\* Function f of invocation p has returned.
Completed(p, f) == f \in Range(completed[p])

\* The calls invocation p made to the given APIs.
CallsTo(p, apis) == {i \in DOMAIN calls[p] : calls[p][i].api \in apis}

\* The name carries the provenance marker.
MarkerIn(name) == Marker \in Range(name)

\* The import of invocation p returned a non-empty list of names.
ImportGaveNames(p) ==
    /\ Completed(p, "upload_aws_key_pairs")
    /\ aws_key_pairs[p].ok
    /\ aws_key_pairs[p].names # <<>>

\* The import of invocation p returned False or the empty list.
ImportGaveNothing(p) ==
    /\ Completed(p, "upload_aws_key_pairs")
    /\ (~aws_key_pairs[p].ok \/ aws_key_pairs[p].names = <<>>)

\* Nothing outside invocation p's own variables has changed.
NothingChanged ==
    /\ registry = registry0
    /\ tmp_file = tmp_file0
    /\ s3_object = NoFile

\* ------------------------------------------------------------------ claims

\* C1: an invocation that returns a response returns one of the three
\* shapes; it returns 200 SUCCESS exactly when authorization passed or was
\* skipped, the listing, the fetch and the render completed, the import
\* returned a non-empty list, the clean completed and upload_to_s3 returned
\* true; a false result of upload_to_s3 yields 500 FAILED.
C1_ResponseContract ==
    \A p \in Procs :
        /\ (response[p] # NoResponse) <=> (pc[p] \in {"DONE", "DENIED", "FAILED"})
        /\ response[p] # NoResponse
              => response[p] \in {Success200, Denied403, Failed500}
        /\ response[p] = Success200 <=>
              /\ authorized[p] \in {"True", "unset"}
              /\ Completed(p, "get_repo_contents")
              /\ Completed(p, "fetch_users")
              /\ Completed(p, "render_template")
              /\ ImportGaveNames(p)
              /\ Completed(p, "clean_aws_key_pairs")
              /\ uploaded[p] = "True"
        /\ uploaded[p] = "False" => response[p] = Failed500

\* A run that returned 200 SUCCESS.
C1_Witness == response[1] = Success200 /\ pc[1] = "DONE"

\* The remote half of C2: a remote invocation whose request id differs from
\* the expected identifier ends in DENIED having done nothing else.
RemoteMismatchDenied ==
    \A p \in Procs :
        (/\ pc[p] # "auth_check"
         /\ context[p] = LambdaContext
         /\ req_repo_id[p] # expected_id[p])
        => /\ pc[p] = "DENIED"
           /\ response[p] = Denied403
           /\ calls[p] = <<>>
           /\ NothingChanged

\* C2: a remote invocation whose request repository id is not equal to the
\* expected identifier ends in DENIED (403) and before that lists, fetches,
\* renders, imports, deletes and uploads nothing; a local invocation (its
\* context is the string 'local') skips the authorization check and never
\* ends in DENIED.
C2_AuthGate ==
    /\ RemoteMismatchDenied
    /\ \A p \in Procs :
          (pc[p] # "auth_check" /\ context[p] \in {LocalLiteral, LocalEqual})
          => authorized[p] = "unset" /\ pc[p] # "DENIED"

\* C3: clean_aws_key_pairs deletes only registry names that carry the marker
\* and are absent from the import result: it calls delete_key_pair with, and
\* returns, no other name, and every name of the registry without the marker
\* or in the import result is still registered, with its key, afterwards.
C3_CleanOnlyStaleMarked ==
    \A p \in Procs :
        LET result == Range(aws_key_pairs[p].names) IN
        /\ \A i \in CallsTo(p, {"delete_key_pair"}) :
              MarkerIn(calls[p][i].arg) /\ calls[p][i].arg \notin result
        /\ \A n \in Range(aws_deleted_keys[p]) : MarkerIn(n) /\ n \notin result
        /\ Completed(p, "upload_aws_key_pairs") =>
              \A n \in DOMAIN registry_at_return[p] :
                  (~MarkerIn(n) \/ n \in result)
                  => n \in DOMAIN registry /\ registry[n] = registry_at_return[p][n]

\* A clean that deleted a name and left both an unmarked name and a name of
\* the import result.
C3_Witness ==
    /\ Completed(1, "clean_aws_key_pairs")
    /\ aws_deleted_keys[1] # <<>>
    /\ \E n \in DOMAIN registry : ~MarkerIn(n)
    /\ \E n \in DOMAIN registry : n \in Range(aws_key_pairs[1].names)

\* The half of C4 about exceptions that are no ClientError.
ExceptionFatal ==
    \A p \in Procs : \A i \in CallsTo(p, {"import_key_pair"}) :
        calls[p][i].result = "Exception"
        => /\ i = Len(calls[p])
           /\ ImportGaveNothing(p)
           /\ pc[p] = "FAILED"
           /\ response[p] = Failed500

\* C4: a provider error on a key registration other than the duplicate
\* error is fatal: it is the last call of the run (no further key is
\* registered, clean and publish do not run), the import yields the empty
\* or failure signal and the run ends in FAILED.
C4_OtherErrorFatal ==
    \A p \in Procs : \A i \in CallsTo(p, {"import_key_pair"}) :
        calls[p][i].result \in {"ClientError", "Exception"}
        => /\ i = Len(calls[p])
           /\ ImportGaveNothing(p)
           /\ pc[p] = "FAILED"
           /\ response[p] = Failed500

\* upload_aws_key_pairs has returned in invocation p (in a return value or
\* in False), and no call of it ended in an error other than duplicate.
ImportReturned(p) == Completed(p, "upload_aws_key_pairs")
ImportUnfailed(p) ==
    \A i \in CallsTo(p, {"import_key_pair"}) :
        calls[p][i].result \in {"ok", "Duplicate"}

\* The second of two imports of one UserKeyMap changed nothing, found every
\* key existing and returned what the first returned, no name twice.
SecondImportSame ==
    /\ registry_at_return[2] = registry_at_return[1]
    /\ imported_keys[2] = <<>>
    /\ Range(existing_keys[2])
          = {users[2][i].user \o <<Marker>> : i \in DOMAIN users[2]}
    /\ aws_key_pairs[2] = aws_key_pairs[1]
    /\ \A i, j \in DOMAIN aws_key_pairs[2].names :
          aws_key_pairs[2].names[i] = aws_key_pairs[2].names[j] => i = j

C6_EmptyImportShortCircuits ==
    \A p \in Procs :
        /\ ImportGaveNothing(p)
           => /\ pc[p] = "FAILED"
              /\ response[p] = Failed500
              /\ CallsTo(p, {"describe_key_pairs", "delete_key_pair",
                             "upload_file"}) = {}
              /\ aws_deleted_keys[p] = <<>>
              /\ uploaded[p] = "unset"
              /\ registry = registry_at_return[p]
              /\ s3_object = NoFile
        /\ (CallsTo(p, {"describe_key_pairs"}) # {}
                \/ Completed(p, "clean_aws_key_pairs")
                \/ pc[p] = "clean_aws_key_pairs")
           => ImportGaveNames(p)

\* An import in which every registration was refused returned the empty
\* list, and the run is FAILED.
C6_Witness ==
    /\ Completed(1, "upload_aws_key_pairs")
    /\ aws_key_pairs[1] = PyList(<<>>)
    /\ CallsTo(1, {"import_key_pair"}) # {}
    /\ pc[1] = "FAILED"

\* C7: when the listing is empty the run aborts in the render step, with
\* no response, having made no call but the GET of the listing: the
\* registry, the bucket and the file /tmp/init.conf are as they were.
C7_EmptyListingAborts ==
    \A p \in Procs :
        (Completed(p, "get_repo_contents") /\ data[p] = <<>>)
        => /\ pc[p] \in {"fetch_users", "render_template", "ABORTED"}
           /\ pc[p] = "ABORTED" => Completed(p, "fetch_users")
           /\ ~Completed(p, "render_template")
           /\ calls[p] = <<Call("GET listing", <<>>, "ok")>>
           /\ response[p] = NoResponse
           /\ NothingChanged

\* A run aborted by render_template after an empty listing.
C7_Witness ==
    /\ Completed(1, "fetch_users")
    /\ data[1] = <<>>
    /\ users[1] = <<>>
    /\ pc[1] = "ABORTED"

\* C8: after a run in which the listing and every fetch succeeded with at
\* least one key file, every registration succeeded or reported duplicate
\* and the upload succeeded, the response is 200 SUCCESS, the registry
\* names with the marker are exactly the names <username>-gh-key of the
\* UserKeyMap, and the names without the marker are as before the run.
C8_Reconciled ==
    \A p \in Procs :
        (/\ Completed(p, "fetch_users")
         /\ Len(data[p]) >= 1
         /\ \A i \in DOMAIN fetched[p] : fetched[p][i].kind = "ok"
         /\ Completed(p, "upload_aws_key_pairs")
         /\ \A i \in CallsTo(p, {"import_key_pair"}) :
               calls[p][i].result \in {"ok", "Duplicate"}
         /\ \E i \in CallsTo(p, {"upload_file"}) : calls[p][i].result = "ok")
        => /\ response[p] = Success200
           /\ {n \in DOMAIN registry : MarkerIn(n)}
                 = {users[p][i].user \o <<Marker>> : i \in DOMAIN users[p]}
           /\ {n \in DOMAIN registry : ~MarkerIn(n)}
                 = {n \in DOMAIN registry0 : ~MarkerIn(n)}
           /\ \A n \in DOMAIN registry0 :
                 ~MarkerIn(n) => registry[n] = registry0[n]

\* Such a run that imported a key, found one registered and deleted a
\* stale one beside an unmarked one.
C8_Witness ==
    /\ pc[1] = "DONE"
    /\ \A i \in DOMAIN fetched[1] : fetched[1][i].kind = "ok"
    /\ \A i \in CallsTo(1, {"import_key_pair"}) :
          calls[1][i].result \in {"ok", "Duplicate"}
    /\ imported_keys[1] # <<>>
    /\ existing_keys[1] # <<>>
    /\ aws_deleted_keys[1] # <<>>
    /\ \E n \in DOMAIN registry : ~MarkerIn(n)

\* The places of a text where a line ends: an "\n", or an "\r" with no
\* "\n" after it.
LineEnds(t) ==
    {i \in 1..Len(t) :
        t[i] = "LF" \/ (t[i] = "CR" /\ ~(i < Len(t) /\ t[i + 1] = "LF"))}

\* The places of the line of t that place i lies in.
LineAt(t, i) ==
    {j \in 1..Len(t) :
        \A e \in LineEnds(t) : (e < i <=> e < j)}

\* The characters of t at the places K, in their order.
Pick(t, K) ==
    [k \in 1..Cardinality(K) |->
        t[CHOOSE x \in K : Cardinality({y \in K : y <= x}) = k]]

\* t without its lines that are empty or hold only line-ending characters.
WithoutEmptyLines(t) ==
    Pick(t, {i \in 1..Len(t) : \E j \in LineAt(t, i) : t[j] \notin {"LF", "CR"}})

\* t without its lines that hold only whitespace.
WithoutBlankLines(t) ==
    Pick(t, {i \in 1..Len(t) : \E j \in LineAt(t, i) : t[j] \notin {"SP", "LF", "CR"}})

\* t without the whitespace before its first and after its last character
\* that is no whitespace.
Trimmed(t) ==
    LET solid == {i \in 1..Len(t) : t[i] \notin {"SP", "LF", "CR"}} IN
    Pick(t, {i \in 1..Len(t) : \E a, b \in solid : a <= i /\ i <= b})

\* The key the UserKeyMap of invocation p holds for each listed file (the
\* last of the files of one username) is norm of what the GET returned.
KeysAre(p, norm(_)) ==
    \A i \in DOMAIN data[p] :
        (\A j \in DOMAIN data[p] :
            j > i => BeforeFirstDot(data[p][j]) # BeforeFirstDot(data[p][i]))
        => \E k \in DOMAIN users[p] :
              /\ users[p][k].user = BeforeFirstDot(data[p][i])
              /\ users[p][k].key = norm(fetched[p][i].content)

StripThenWithoutBlankLines(t) == WithoutBlankLines(Trimmed(t))
PublishCases(p) ==
    /\ (Completed(p, "upload_to_s3") /\ ~tmp_file.exists)
       => uploaded[p] = "False" /\ CallsTo(p, {"upload_file"}) = {}
    /\ \A i \in CallsTo(p, {"upload_file"}) :
          calls[p][i].result = "raise"
          => Completed(p, "upload_to_s3") /\ uploaded[p] = "False"
    /\ uploaded[p] = "True"
       => /\ \E i \in CallsTo(p, {"upload_file"}) : calls[p][i].result = "ok"
          /\ s3_object = tmp_file

\* upload_to_s3 was called in invocation p and is over.
PublishOver(p) == Completed(p, "clean_aws_key_pairs") /\ pc[p] # "upload_to_s3"

\* C10 as claimed: upload_to_s3 never propagates an error, it returns
\* whenever it is called; with the three cases.
C10_PublishNeverRaises ==
    \A p \in Procs :
        /\ PublishOver(p)
           => /\ Completed(p, "upload_to_s3")
              /\ uploaded[p] \in {"True", "False"}
              /\ pc[p] \in {"DONE", "FAILED"}
        /\ PublishCases(p)

\* C10 as amended: upload_to_s3 propagates no error of the upload call,
\* it returns whenever the file is absent or boto3.client('s3') returns a
\* client (an exception of that call, made outside the try, leaves the
\* function before any upload); with the three cases.
C10_PublishAbsorbsUploadErrors ==
    \A p \in Procs :
        /\ (PublishOver(p) /\ (aws_config_ok \/ ~tmp_file.exists))
           => /\ Completed(p, "upload_to_s3")
              /\ uploaded[p] \in {"True", "False"}
              /\ pc[p] \in {"DONE", "FAILED"}
        /\ (PublishOver(p) /\ pc[p] = "ABORTED")
           => CallsTo(p, {"upload_file"}) = {} /\ s3_object \in {NoFile, StaleFile}
        /\ PublishCases(p)

\* upload_to_s3 returned false on an absent file.
C10_Witness ==
    /\ Completed(1, "upload_to_s3")
    /\ ~tmp_file.exists
    /\ uploaded[1] = "False"
    /\ pc[1] = "FAILED"

\* What C11 says of an invocation whose listing was refused: it aborted in
\* get_repo_contents with no response, having fetched no file, written no
\* artifact, changed no key pair and uploaded nothing.
AbortedAtListing(p) ==
    /\ pc[p] = "ABORTED"
    /\ response[p] = NoResponse
    /\ ~Completed(p, "get_repo_contents")
    /\ calls[p] = <<Call("GET listing", <<>>, "ok")>>
    /\ users[p] = <<>>
    /\ NothingChanged

\* C11 as claimed: if the status of the listing response is anything other
\* than 200, get_repo_contents raises and the invocation aborts with no
\* response: no file is fetched, the artifact is not written, the registry
\* is unchanged and nothing is uploaded.
C11_Non200Aborts ==
    \A p \in Procs :
        (status_code[p] # 0 /\ status_code[p] # 200) => AbortedAtListing(p)

\* C11 as amended: the same of every status from 100 to 599 other than 200.
C11_BadStatusAborts ==
    \A p \in Procs :
        (status_code[p] \in 100..599 /\ status_code[p] # 200)
        => AbortedAtListing(p)

\* A listing answered with 404, and the invocation aborted.
C11_Witness ==
    /\ status_code[1] = 404
    /\ pc[1] = "ABORTED"
    /\ calls[1] = <<Call("GET listing", <<>>, "ok")>>

\* What C12 says of an invocation with a failed file fetch: it aborted in
\* fetch_users, no entry of the UserKeyMap was built, and no render, import,
\* delete or upload followed.
AbortedAtFetch(p) ==
    /\ pc[p] = "ABORTED"
    /\ response[p] = NoResponse
    /\ ~Completed(p, "fetch_users")
    /\ users[p] = <<>>
    /\ CallsTo(p, {"write /tmp/init.conf", "import_key_pair",
                   "describe_key_pairs", "delete_key_pair", "upload_file"}) = {}
    /\ NothingChanged

\* The half of C12 about a GET that raises (no response at all).
RaisedFetchAborts ==
    \A p \in Procs : \A i \in CallsTo(p, {"GET file"}) :
        calls[p][i].result = "raise" => AbortedAtFetch(p)

\* C12: a failed fetch of any single key file (the GET raised, or its
\* response is not a success) aborts the run as an unhandled transport
\* error: no UserKeyMap entry is built from a failed file response, and no
\* render, key-pair import, delete or upload follows in that run.
C12_FailedFetchAborts ==
    \A p \in Procs : \A i \in CallsTo(p, {"GET file"}) :
        calls[p][i].result # "ok" => AbortedAtFetch(p)

\* The functions lambda_handler calls after the authorization, in the order
\* of the steps FETCH_LISTING .. PUBLISH, and the step each outside call
\* belongs to.
StepOrder == <<"get_repo_contents", "fetch_users", "render_template",
               "upload_aws_key_pairs", "clean_aws_key_pairs", "upload_to_s3">>
StepOfCall(api) ==
    CASE api = "GET listing" -> 1
      [] api = "GET file" -> 2
      [] api = "write /tmp/init.conf" -> 3
      [] api = "import_key_pair" -> 4
      [] api \in {"describe_key_pairs", "delete_key_pair"} -> 5
      [] api = "upload_file" -> 6

\* The functions that returned in invocation p, the authorization apart.
CompletedSteps(p) ==
    IF completed[p] # <<>> /\ Head(completed[p]) = "github_auth_handler"
    THEN Tail(completed[p]) ELSE completed[p]

\* C13: in every run of lambda_handler the steps occur only in the order
\* AUTH_CHECK, FETCH_LISTING, FETCH_USERS, RENDER, RECONCILE_IMPORT,
\* RECONCILE_CLEAN, PUBLISH, DONE, each step starting only after every
\* preceding step completed: the functions return in that order, each
\* outside call is made within its step, the artifact is rendered before
\* the registry changes, no key pair is deleted before the import returned
\* and the artifact is uploaded only after the clean completed.
C13_StepOrder ==
    \A p \in Procs :
        /\ Len(CompletedSteps(p)) <= Len(StepOrder)
        /\ CompletedSteps(p) = SubSeq(StepOrder, 1, Len(CompletedSteps(p)))
        /\ authorized[p] = "False" => completed[p] = <<"github_auth_handler">>
        /\ \A k \in DOMAIN StepOrder :
              pc[p] = StepOrder[k] => Len(CompletedSteps(p)) = k - 1
        /\ pc[p] = "auth_check" => completed[p] = <<>> /\ calls[p] = <<>>
        /\ pc[p] = "DONE" => CompletedSteps(p) = StepOrder
        /\ \A i \in DOMAIN calls[p] :
              /\ Len(CompletedSteps(p)) >= StepOfCall(calls[p][i].api) - 1
              /\ \A j \in DOMAIN calls[p] :
                    i < j => StepOfCall(calls[p][i].api) <= StepOfCall(calls[p][j].api)
        /\ CallsTo(p, {"import_key_pair", "delete_key_pair"}) # {}
              => Completed(p, "render_template") /\ tmp_file.exists
        /\ CallsTo(p, {"delete_key_pair"}) # {}
              => Completed(p, "upload_aws_key_pairs")
        /\ CallsTo(p, {"upload_file"}) # {}
              => Completed(p, "clean_aws_key_pairs")
        /\ registry # registry0
              => \E q \in Procs : Completed(q, "render_template")
        /\ s3_object # NoFile
              => \E q \in Procs : Completed(q, "clean_aws_key_pairs")

\* A run through every step to DONE that registered a key pair, deleted one
\* and uploaded the artifact.
C13_Witness ==
    /\ pc[1] = "DONE"
    /\ completed[1] = <<"github_auth_handler">> \o StepOrder
    /\ \E i \in CallsTo(1, {"import_key_pair"}) : calls[1][i].result = "ok"
    /\ \E i \in CallsTo(1, {"delete_key_pair"}) : calls[1][i].result = "ok"
    /\ s3_object = tmp_file

\* The names of the list are in strictly ascending order.
Ascending(names) ==
    \A i, j \in DOMAIN names : i < j => NameLess(names[i], names[j])

\* The import_key_pair call of invocation p for the name ended as one of
\* the results.
Registered(p, name, results) ==
    \E i \in CallsTo(p, {"import_key_pair"}) :
        calls[p][i].arg = name /\ calls[p][i].result \in results

\* C14: when no fatal error occurs, upload_aws_key_pairs returns the sorted
\* union of the 'existing' and 'imported' names; every returned name is
\* <username>-gh-key for a username of the UserKeyMap whose registration
\* succeeded or reported duplicate, and is in the registry when the import
\* returns.
C14_ImportResult ==
    \A p \in Procs :
        (Completed(p, "upload_aws_key_pairs") /\ aws_key_pairs[p].ok)
        => LET names == aws_key_pairs[p].names IN
           /\ Ascending(names)
           /\ Range(names) = Range(existing_keys[p]) \cup Range(imported_keys[p])
           /\ Len(names) = Len(existing_keys[p]) + Len(imported_keys[p])
           /\ \A n \in Range(names) :
                 /\ \E i \in DOMAIN users[p] : n = users[p][i].user \o <<Marker>>
                 /\ Registered(p, n, {"ok", "Duplicate"})
                 /\ n \in DOMAIN registry_at_return[p]
           /\ \A i \in DOMAIN users[p] :
                 Registered(p, users[p][i].user \o <<Marker>>, {"ok", "Duplicate"})
                 => users[p][i].user \o <<Marker>> \in Range(names)

\* An import of two users, one registered and one found existing, that
\* returned both names.
C14_Witness ==
    /\ Completed(1, "upload_aws_key_pairs")
    /\ Len(imported_keys[1]) = 1
    /\ Len(existing_keys[1]) = 1
    /\ aws_key_pairs[1] = PyList(<<<<"alice", Marker>>, <<"bob", Marker>>>>)
    /\ imported_keys[1] = <<<<"bob", Marker>>>>

\* C15: when clean_aws_key_pairs completes with a non-empty import result,
\* it has deleted every registry name that carries the marker and is not in
\* the import result, so that every registry name with the marker is in the
\* import result, and it returns the sorted list of exactly the names it
\* deleted (empty when it deleted none).
C15_CleanDeletesAllStale ==
    \A p \in Procs :
        (Completed(p, "clean_aws_key_pairs") /\ aws_key_pairs[p].names # <<>>)
        => LET result == Range(aws_key_pairs[p].names)
               stale == {n \in DOMAIN registry_at_return[p] :
                            MarkerIn(n) /\ n \notin result}
           IN /\ \A n \in DOMAIN registry : MarkerIn(n) => n \in result
              /\ DOMAIN registry = DOMAIN registry_at_return[p] \ stale
              /\ Range(aws_deleted_keys[p]) = stale
              /\ Len(aws_deleted_keys[p]) = Cardinality(stale)
              /\ Ascending(aws_deleted_keys[p])
              /\ {calls[p][i].arg : i \in CallsTo(p, {"delete_key_pair"})} = stale
              /\ \A i \in CallsTo(p, {"delete_key_pair"}) : calls[p][i].result = "ok"

\* A clean that deleted two stale names and returned them in order.
C15_Witness ==
    /\ Completed(1, "clean_aws_key_pairs")
    /\ aws_deleted_keys[1] = <<<<"dave", Marker>>, <<"dave", Marker, "-old">>>>
    /\ aws_key_pairs[1].names # <<>>

\* A clean that found nothing to delete and returned the empty list.
CleanReturnedEmpty ==
    /\ Completed(1, "clean_aws_key_pairs")
    /\ aws_deleted_keys[1] = <<>>
    /\ \E n \in DOMAIN registry : MarkerIn(n)

\* A file name with its extension stripped: the name up to its last dot
\* (the whole name when it has no dot).
StripExtension(name) ==
    LET dots == {i \in DOMAIN name : name[i] = "."} IN
    IF dots = {} THEN name
    ELSE SubSeq(name, 1, (CHOOSE i \in dots : \A j \in dots : j <= i) - 1)

\* The usernames of the UserKeyMap of invocation p are unique and are
\* username(name) of the listed files, and the entry of each holds the key
\* of the last listed file of that username.
UsernamesAre(p, username(_)) ==
    /\ {users[p][k].user : k \in DOMAIN users[p]}
          = {username(data[p][i]) : i \in DOMAIN data[p]}
    /\ \A k, l \in DOMAIN users[p] : users[p][k].user = users[p][l].user => k = l
    /\ \A i \in DOMAIN data[p] :
          (\A j \in DOMAIN data[p] : j > i => username(data[p][j]) # username(data[p][i]))
          => \E k \in DOMAIN users[p] :
                /\ users[p][k].user = username(data[p][i])
                /\ users[p][k].key = StripThenWithoutBlankLines(fetched[p][i].content)

\* The half of C16 about uniqueness, the username being what the code
\* derives: the part of the file name before its first dot.
UniqueLastWins ==
    \A p \in Procs : Completed(p, "fetch_users") => UsernamesAre(p, BeforeFirstDot)

\* C16: fetch_users builds a UserKeyMap whose usernames are the listed file
\* names with the file extension stripped, with unique keys: when two listed
\* files yield the same username the map holds one entry for it, whose key
\* is that of the file listed last.
C16_UsernamesStripExtension ==
    \A p \in Procs : Completed(p, "fetch_users") => UsernamesAre(p, StripExtension)

\* Two listed files of one username (by the code's derivation), and one
\* entry with the key of the second.
TwoFilesOneUser ==
    /\ Completed(1, "fetch_users")
    /\ data[1] = <<<<"alice", ".", "pub">>, <<"alice", ".", "old", ".", "pub">>>>
    /\ fetched[1][1].content = <<"k1", "LF", "LF">>
    /\ fetched[1][2].content = <<"k2">>
    /\ users[1] = <<[user |-> <<"alice">>, key |-> <<"k2">>]>>

\* Invocation p has made an outside call and has not ended.
Running(p) == calls[p] # <<>> /\ pc[p] \notin Terminal

\* Two invocations are under way at once.
Overlap == \E p, q \in Procs : p # q /\ Running(p) /\ Running(q)

\* The artifact rendered from a UserKeyMap.
RenderedFrom(user_keys) == RemoveBlankLines(TemplateRender(user_keys))

\* Every artifact an invocation uploaded is the one rendered in it.
UploadsOwnArtifact ==
    \A p \in Procs : \A i \in CallsTo(p, {"upload_file"}) :
        /\ Completed(p, "render_template")
        /\ calls[p][i].arg = RenderedFrom(users[p])

\* C17: two invocations of lambda_handler interleaved on one host can race
\* on the file /tmp/init.conf (the state of C17_Witness is reachable: an
\* invocation uploads the artifact the other rendered from another
\* UserKeyMap and returns 200 SUCCESS); in a behaviour in which the
\* invocations never overlap, every artifact uploaded is the one rendered
\* in the same invocation.
C17_NoOverlapOwnArtifact == []~Overlap => []UploadsOwnArtifact

\* The race: invocation 1 returned 200 SUCCESS having uploaded the artifact
\* invocation 2 rendered from another UserKeyMap.
C17_Witness ==
    /\ pc[1] = "DONE"
    /\ response[1] = Success200
    /\ Completed(2, "render_template")
    /\ users[1] # users[2]
    /\ \E i \in CallsTo(1, {"upload_file"}) :
          /\ calls[1][i].result = "ok"
          /\ calls[1][i].arg = RenderedFrom(users[2])
          /\ calls[1][i].arg # RenderedFrom(users[1])

\* Two invocations one after the other, each having uploaded its own
\* artifact.
TwoRunsInSequence ==
    /\ pc[1] = "DONE" /\ pc[2] = "DONE"
    /\ users[1] # users[2]
    /\ UploadsOwnArtifact

PassOnlyOnEqualStrings ==
    \A p \in Procs :
        (context[p] = LambdaContext /\ authorized[p] = "True")
        => req_repo_id[p] = expected_id[p]

\* C19: a remote invocation passes the authorization check only when the
\* expected repository identifier is configured in the environment and
\* equals the request's repository id; when it is not configured (the
\* handler reads None, whose string is 'None'), every remote request that
\* reaches the check ends in DENIED.
C19_UnconfiguredDenies ==
    \A p \in Procs :
        /\ (context[p] = LambdaContext /\ authorized[p] = "True")
           => expected_id[p] # "None" /\ req_repo_id[p] = expected_id[p]
        /\ (context[p] = LambdaContext /\ expected_id[p] = "None")
           => /\ authorized[p] = "False"
              /\ pc[p] = "DENIED"
              /\ response[p] = Denied403

====
